---- MODULE Spec2Model ----
(***************************************************************************)
(* Research orchestration core of the CRE research agent:                  *)
(*   - QueryController.categorizeQuery (keyword-count categorizer),        *)
(*   - QueryController.handleResearchQuery (validation, session reset,     *)
(*     adapter fan-out, synthesis, completion flag),                       *)
(*   - the four adapters' getResearch,                                     *)
(*   - AIService.processResearch (flatten, prompt, provider call,          *)
(*     citations),                                                         *)
(*   - the process-wide maps global.researchStatus / researchComplete,     *)
(*   - QueryController.getResearchStatus (status polling),                 *)
(*   - WikipediaService.searchWikipedia (record it returns),               *)
(*   - the report controller: generateReport, its expiry timer,            *)
(*     downloadReport,                                                     *)
(*   - QueryCategorizer.categorize beside the controller's categorizer,    *)
(*   - LeasingService.processQuery and FallbackService.processQuery,       *)
(*   - RSSFeedService.searchNews.                                          *)
(*                                                                         *)
(* JavaScript strings that the code inspects character by character        *)
(* (the query) are tuples of one-character strings; strings the code only  *)
(* passes along are TLA+ strings.  Timestamps of events are left out: no   *)
(* code path reads them.                                                   *)
(***************************************************************************)
EXTENDS Integers, Sequences, FiniteSets, TLC

VARIABLES
    researchStatus,    \* global.researchStatus: session id -> event log
    researchComplete,  \* global.researchComplete: session id -> flag
    env,               \* process.env entries read by AIService
    req,               \* the in-flight HTTP requests, one record per slot
    catQuery,          \* input of a stand-alone categorizer call
    catResult,         \* its result ("none" before the call)
    statusRes,         \* response of the latest getResearchStatus call, kept
                       \* until the next step of a research request
    call,              \* a stand-alone call of an adapter, a provider or the
                       \* synthesis step, with its result
    reportStore,       \* reportStore of the report controller: id -> PDF bytes
    timeouts,          \* the setTimeout callbacks of generateReport, by report id
    reportRes          \* response of the latest report request

vars == <<researchStatus, researchComplete, env, req, catQuery, catResult,
          statusRes, call, reportStore, timeouts, reportRes>>

\* the variables of the report controller
reportVars == <<reportStore, timeouts, reportRes>>

-----------------------------------------------------------------------------
(* Bounds of the model *)

\* number of words of a generated categorizer input
MaxWords == 2

\* number of entries an arXiv answer holds at most
MaxEntries == 3

\* stand-alone calls are made while every log is shorter than this
MaxLog == 3

\* number of reports generated
MaxReports == 3

\* highest keyword count given to the two categorizers
MaxCount == 4

-----------------------------------------------------------------------------
(* String helpers: String.prototype.toLowerCase and .includes *)

UpperAlpha == <<"A","B","C","D","E","F","G","H","I","J","K","L","M",
                "N","O","P","Q","R","S","T","U","V","W","X","Y","Z">>

LowerAlpha == <<"a","b","c","d","e","f","g","h","i","j","k","l","m",
                "n","o","p","q","r","s","t","u","v","w","x","y","z">>

ToLowerMap ==
    [c \in {UpperAlpha[i] : i \in 1..Len(UpperAlpha)} |->
        LowerAlpha[CHOOSE i \in 1..Len(UpperAlpha) : UpperAlpha[i] = c]]

ToLowerChar(c) == IF c \in DOMAIN ToLowerMap THEN ToLowerMap[c] ELSE c

toLowerCase(s) == [i \in 1..Len(s) |-> ToLowerChar(s[i])]

\* s.includes(k): k occurs in s as a contiguous substring
includes(s, k) ==
    \E i \in 0..(Len(s) - Len(k)) : \A j \in 1..Len(k) : s[i + j] = k[j]

-----------------------------------------------------------------------------
(* QueryController.categorizeQuery *)

sustainabilityKeywords ==
    << <<"s", "u", "s", "t", "a", "i", "n", "a", "b", "i", "l", "i", "t", "y">>,
       <<"s", "u", "s", "t", "a", "i", "n", "a", "b", "l", "e">>,
       <<"g", "r", "e", "e", "n">>,
       <<"e", "n", "e", "r", "g", "y", " ", "e", "f", "f", "i", "c", "i", "e", "n", "c", "y">>,
       <<"r", "e", "n", "e", "w", "a", "b", "l", "e">>,
       <<"l", "e", "e", "d">>,
       <<"c", "a", "r", "b", "o", "n">>,
       <<"n", "e", "t", " ", "z", "e", "r", "o">>,
       <<"e", "s", "g">>,
       <<"e", "n", "v", "i", "r", "o", "n", "m", "e", "n", "t", "a", "l">> >>

leasingKeywords ==
    << <<"l", "e", "a", "s", "e">>,
       <<"l", "e", "a", "s", "i", "n", "g">>,
       <<"t", "e", "n", "a", "n", "t">>,
       <<"l", "a", "n", "d", "l", "o", "r", "d">>,
       <<"r", "e", "n", "t">>,
       <<"r", "e", "n", "t", "a", "l">>,
       <<"o", "c", "c", "u", "p", "a", "n", "c", "y">>,
       <<"v", "a", "c", "a", "n", "c", "y">>,
       <<"s", "q", "u", "a", "r", "e", " ", "f", "o", "o", "t", "a", "g", "e">>,
       <<"o", "f", "f", "i", "c", "e", " ", "s", "p", "a", "c", "e">> >>

marketKeywords ==
    << <<"m", "a", "r", "k", "e", "t">>,
       <<"t", "r", "e", "n", "d">>,
       <<"f", "o", "r", "e", "c", "a", "s", "t">>,
       <<"g", "r", "o", "w", "t", "h">>,
       <<"i", "n", "v", "e", "s", "t", "m", "e", "n", "t">>,
       <<"c", "a", "p", " ", "r", "a", "t", "e">>,
       <<"y", "i", "e", "l", "d">>,
       <<"r", "e", "t", "u", "r", "n">>,
       <<"a", "p", "p", "r", "e", "c", "i", "a", "t", "i", "o", "n">>,
       <<"p", "r", "o", "p", "e", "r", "t", "y", " ", "v", "a", "l", "u", "e">>,
       <<"p", "r", "i", "c", "e">> >>

\* keywords.forEach(keyword => { if (queryLower.includes(keyword)) n++ })
CountMatches(queryLower, keywords) ==
    Cardinality({i \in 1..Len(keywords) : includes(queryLower, keywords[i])})

sustainabilityMatches(query) == CountMatches(toLowerCase(query), sustainabilityKeywords)
leasingMatches(query)        == CountMatches(toLowerCase(query), leasingKeywords)
marketMatches(query)         == CountMatches(toLowerCase(query), marketKeywords)

\* BestCategory with the operands of the leasing test swapped
BestCategory_SwappedLeasing(s, l, m) ==
    IF s > l /\ s > m THEN "sustainability"
    ELSE IF l > s /\ m > l THEN "leasing"
    ELSE IF m > 0 THEN "market"
    ELSE "general"

\* BestCategory with the market test written >= 0
BestCategory_MarketDefault(s, l, m) ==
    IF s > l /\ s > m THEN "sustainability"
    ELSE IF l > s /\ l > m THEN "leasing"
    ELSE IF m >= 0 THEN "market"
    ELSE "general"

\* BestCategory with the market test strict against both other counts
BestCategory_StrictMarket(s, l, m) ==
    IF s > l /\ s > m THEN "sustainability"
    ELSE IF l > s /\ l > m THEN "leasing"
    ELSE IF m > s /\ m > l THEN "market"
    ELSE "general"

\* the if / else-if chain that picks the category from the three counts
BestCategory(s, l, m) ==
    IF s > l /\ s > m THEN "sustainability"
    ELSE IF l > s /\ l > m THEN "leasing"
    ELSE IF m > 0 THEN "market"
    ELSE "general"

categorizeQuery(query) ==
    BestCategory(sustainabilityMatches(query), leasingMatches(query),
                 marketMatches(query))

-----------------------------------------------------------------------------
(* Inputs *)

W_LEED == <<"L", "E", "E", "D">>
W_Green == <<"G", "r", "e", "e", "n">>
W_current == <<"c", "u", "r", "r", "e", "n", "t">>
W_lease == <<"l", "e", "a", "s", "e">>
W_trends == <<"t", "r", "e", "n", "d", "s">>
W_office == <<"o", "f", "f", "i", "c", "e">>
W_Vacancy == <<"V", "a", "c", "a", "n", "c", "y">>

Q_LeedTrends == <<"W", "h", "a", "t", " ", "a", "r", "e", " ", "c", "u", "r", "r", "e", "n", "t", " ", "L", "E", "E", "D", " ", "c", "e", "r", "t", "i", "f", "i", "c", "a", "t", "i", "o", "n", " ", "t", "r", "e", "n", "d", "s", "?">>
Q_OfficeVacancy == <<"o", "f", "f", "i", "c", "e", " ", "v", "a", "c", "a", "n", "c", "y", " ", "r", "a", "t", "e", " ", "f", "o", "r", "e", "c", "a", "s", "t">>
Q_GreenBuilding == <<"G", "r", "e", "e", "n", " ", "b", "u", "i", "l", "d", "i", "n", "g">>
Q_Tenant == <<"t", "e", "n", "a", "n", "t", " ", "m", "i", "x">>
Q_Hello == <<"h", "e", "l", "l", "o">>
Q_GreenLease == <<"g", "r", "e", "e", "n", " ", "l", "e", "a", "s", "e">>

\* queries a client may send with a research request
Queries == {Q_LeedTrends, Q_OfficeVacancy, Q_GreenBuilding, Q_Tenant, Q_Hello}

\* session ids a client may send
SessionIds == {"s1", "s2"}

\* a document context as produced by DocumentAnalyzer.analyze
DocA == [summary |-> "Lease abstract of the uploaded document",
         topics |-> <<"Leasing">>, wordCount |-> 120]

\* req.body of POST /api/query/research: a JSON object whose fields may be
\* absent or empty; "" and <<>> are the empty (falsy) strings
ValidBodies ==
    { [query |-> q, sessionId |-> s] : q \in Queries, s \in SessionIds }
    \cup
    { [query |-> q, sessionId |-> s, documentContext |-> DocA] :
        q \in Queries, s \in SessionIds }

InvalidBodies ==
    { [sessionId |-> "s1"],
      [query |-> << >>, sessionId |-> "s1"],
      [query |-> Q_Hello],
      [query |-> Q_Hello, sessionId |-> ""],
      [query |-> Q_Tenant, documentContext |-> DocA] }

Bodies == ValidBodies \cup InvalidBodies

\* const { query, sessionId, documentContext } = req.body, then !x
QueryMissing(body)     == "query" \notin DOMAIN body \/ body["query"] = << >>
SessionIdMissing(body) == "sessionId" \notin DOMAIN body \/ body["sessionId"] = ""
HasDocumentContext(body) == "documentContext" \in DOMAIN body

\* process.env as AIService reads it; "" stands for an unset variable
EnvConfigs ==
    { [AI_PROVIDER |-> "",          OPENAI_API_KEY |-> "",     ANTHROPIC_API_KEY |-> ""],
      [AI_PROVIDER |-> "OpenAI",    OPENAI_API_KEY |-> "sk-o", ANTHROPIC_API_KEY |-> ""],
      [AI_PROVIDER |-> "anthropic", OPENAI_API_KEY |-> "",     ANTHROPIC_API_KEY |-> "sk-a"],
      [AI_PROVIDER |-> "local",     OPENAI_API_KEY |-> "",     ANTHROPIC_API_KEY |-> ""],
      [AI_PROVIDER |-> "cohere",    OPENAI_API_KEY |-> "sk-o", ANTHROPIC_API_KEY |-> "sk-a"] }

\* outcomes of the arXiv HTTP call: it fails, or the feed holds n entries,
\* never more than the max_results the URL asks for
maxResults == 5
ArXivOutcomes ==
    { [failed |-> TRUE, entries |-> 0] }
    \cup { [failed |-> FALSE, entries |-> n] :
              n \in 0..(IF MaxEntries < maxResults THEN MaxEntries ELSE maxResults) }

\* outcomes of the model provider's HTTP call
ModelOutcomes == {"ok", "error"}

\* the server receives two requests, numbered in the order of their arrival;
\* they may overlap in time and may carry the same session id
Reqs == {1, 2}

-----------------------------------------------------------------------------
(* The session progress maps *)

Ev(step)          == [step |-> step]
EvS(step, source) == [step |-> step, source |-> source]

\* an assignment that rebuilds the object with the assigned key alone
SetKey_DropsOthers(obj, key, value) == [k \in {key} |-> value]

\* obj[key] = value on a JavaScript object used as a map
SetKey(obj, key, value) ==
    [k \in DOMAIN obj \cup {key} |-> IF k = key THEN value ELSE obj[k]]

\* a push that appends the event to the log of every session
Push_All(status, sessionId, event) ==
    [s \in DOMAIN status |-> Append(status[s], event)]

\* a push that puts the event at the front of the log
Push_Front(status, sessionId, event) ==
    [status EXCEPT ![sessionId] = << event >> \o @]

\* global.researchStatus[sessionId].push(event)
Push(status, sessionId, event) ==
    [status EXCEPT ![sessionId] = Append(@, event)]

\* a guarded push that first creates the log of a session that has none
LogIfSession_Creates(status, sessionId, event) ==
    IF sessionId = "" THEN status
    ELSE IF sessionId \in DOMAIN status THEN Push(status, sessionId, event)
    ELSE SetKey(status, sessionId, << event >>)

\* if (sessionId && global.researchStatus[sessionId]) { ...push(event) }
LogIfSession(status, sessionId, event) ==
    IF sessionId # "" /\ sessionId \in DOMAIN status
    THEN Push(status, sessionId, event)
    ELSE status

-----------------------------------------------------------------------------
(* Research records *)

Today == "today"

Record(title, authors, source, link, text, arg, type) ==
    [title |-> title, authors |-> authors, date |-> Today, source |-> source,
     link |-> link, summary |-> [text |-> text, arg |-> arg], type |-> type]

\* a field of an object that may lack it: undefined
Undefined == "undefined"
Field(obj, f) == IF f \in DOMAIN obj THEN obj[f] ELSE Undefined

\* what an adapter call gives its caller: a returned array, or an exception
Returned(status, value) == [status |-> status, raised |-> FALSE, value |-> value]
Raised(status, message) == [status |-> status, raised |-> TRUE, message |-> message]

-----------------------------------------------------------------------------
(* SustainabilityService *)

ArXivRecord(i) ==
    Record("arXiv paper " \o ToString(i), "arXiv authors", "arXiv",
           "http://arxiv.org/abs/" \o ToString(i), "abstract", << >>,
           "academic_paper")

\* searchArXiv: the entries of the feed mapped to records; any error inside
\* (HTTP failure, malformed XML) is caught and gives []
searchArXiv(outcome) ==
    IF outcome.failed THEN << >>
    ELSE [i \in 1..outcome.entries |-> ArXivRecord(i)]

\* a searchLEED that finds nothing
searchLEED_Empty(query) == [raised |-> FALSE, value |-> << >>]

\* searchLEED: the placeholder record; gives its result as a call outcome so
\* that getResearch's try/catch around the call is modelled
searchLEED(query) ==
    [raised |-> FALSE,
     value |-> << Record("LEED Certification Data (Placeholder)",
                         "U.S. Green Building Council", "LEED Database",
                         "https://www.usgbc.org/projects",
                         "This is a placeholder for LEED certification data.",
                         << >>, "certification_data") >>]

\* getResearch up to the await of the arXiv HTTP call
SustainabilityGetResearchBegin(status, sessionId) ==
    LogIfSession(status, sessionId,
                 EvS("Searching academic papers on sustainability", "arXiv"))

\* the part of getResearch inside "if (results.length < 3)": the LEED search
SustainabilityLEED(status, query, sessionId, results) ==
    LET s1   == LogIfSession(status, sessionId,
                    EvS("Searching LEED certification databases",
                        "USGBC LEED Database"))
        leed == searchLEED(query)
    IN  IF leed.raised
        THEN \* catch (leedError): log it, keep the results found so far
             Returned(LogIfSession(s1, sessionId,
                          EvS("LEED data search failed: " \o leed.message,
                              "USGBC LEED Database")),
                      results)
        ELSE IF Len(leed.value) > 0
        THEN Returned(LogIfSession(s1, sessionId,
                          EvS("Retrieved LEED certification data",
                              "USGBC LEED Database")),
                      results \o leed.value)
        ELSE Returned(s1, results)

\* getResearch that searches LEED whatever arXiv gave
SustainabilityGetResearchEnd_AlwaysLEED(status, query, sessionId, outcome) ==
    SustainabilityLEED(status, query, sessionId, searchArXiv(outcome))

\* getResearch that lets a failure of the arXiv call escape to its caller
SustainabilityGetResearchEnd_Rethrows(status, query, sessionId, outcome) ==
    IF outcome.failed
    THEN Raised(status, "Failed to perform sustainability research")
    ELSE IF Len(searchArXiv(outcome)) < 3
    THEN SustainabilityLEED(status, query, sessionId, searchArXiv(outcome))
    ELSE Returned(status, searchArXiv(outcome))

\* getResearch from the completion of the arXiv HTTP call to its return
SustainabilityGetResearchEnd(status, query, sessionId, outcome) ==
    LET arXivResults == searchArXiv(outcome)
        s1 == IF Len(arXivResults) > 0
              THEN LogIfSession(status, sessionId,
                       EvS("Found " \o ToString(Len(arXivResults))
                           \o " relevant academic papers on sustainability",
                           "arXiv"))
              ELSE status
    IN  IF Len(arXivResults) < 3
        THEN SustainabilityLEED(s1, query, sessionId, arXivResults)
        ELSE Returned(s1, arXivResults)

-----------------------------------------------------------------------------
(* WikipediaService *)

\* what the two HTTP calls of searchWikipedia can give: an error, an empty
\* search result, a page without extract, a page with extract
WikipediaOutcomes == {"error", "no results", "no extract", "page"}

\* searchWikipedia, lines 12-78: one record for the top page, [] otherwise
searchWikipedia(outcome) ==
    IF outcome = "page"
    THEN << [title |-> "Wikipedia page", authors |-> "Wikipedia Contributors",
             date |-> Today, source |-> "Wikipedia",
             link |-> "https://en.wikipedia.org/wiki/page",
             summary |-> [text |-> "extract", arg |-> << >>],
             type |-> "knowledge_base"] >>
    ELSE << >>

-----------------------------------------------------------------------------
(* LeasingService, MarketService, FallbackService: getResearch *)

LeasingGetResearch(status, query, sessionId) ==
    Returned(LogIfSession(status, sessionId,
                 EvS("Searching for leasing market information", "Leasing Service")),
             << Record("Commercial Lease Rate Data", "Leasing Research Team",
                       "Leasing Database", "https://example.com/leasing",
                       "Sample leasing data for the query: ", query,
                       "market_report") >>)

MarketGetResearch(status, query, sessionId) ==
    Returned(LogIfSession(status, sessionId,
                 EvS("Analyzing market trend information", "Market Service")),
             << Record("Market Trends Analysis", "Market Research Team",
                       "Market Database", "https://example.com/market",
                       "Sample market data for the query: ", query,
                       "market_report") >>)

\* getResearch that throws as FallbackService.processQuery does on an error
FallbackGetResearch_Raises(status, query, sessionId) ==
    Raised(LogIfSession(status, sessionId,
               EvS("Searching general knowledge sources", "Fallback Service")),
           "Failed to perform general research")

FallbackGetResearch(status, query, sessionId) ==
    Returned(LogIfSession(status, sessionId,
                 EvS("Searching general knowledge sources", "Fallback Service")),
             << Record("General Information", "Research Team",
                       "General Database", "https://example.com/general",
                       "Sample fallback data for the query: ", query,
                       "web_content") >>)

-----------------------------------------------------------------------------
(* AIService *)

\* provider.toLowerCase() on the provider names of EnvConfigs
ProviderToLowerCase(provider) ==
    CASE provider = "OpenAI" -> "openai"
      [] OTHER -> provider

\* getApiKey: "" stands for null / undefined (no key)
getApiKey(provider) ==
    CASE ProviderToLowerCase(provider) = "openai"    -> env.OPENAI_API_KEY
      [] ProviderToLowerCase(provider) = "anthropic" -> env.ANTHROPIC_API_KEY
      [] ProviderToLowerCase(provider) = "local"     -> "mock-key"
      [] OTHER -> ""

\* provider === 'openai' ? 'OpenAI' : (provider === 'anthropic' ? 'Anthropic' : provider)
ProviderSource(provider) ==
    IF provider = "openai" THEN "OpenAI"
    ELSE IF provider = "anthropic" THEN "Anthropic"
    ELSE provider

\* entries of researchResults: an adapter's array, or a plain object
Arr(items) == [isArray |-> TRUE, items |-> items]
Obj(item)  == [isArray |-> FALSE, item |-> item]

\* Array.prototype.flat(): one level of nesting is removed
RECURSIVE flat(_)
flat(results) ==
    IF results = << >> THEN << >>
    ELSE (IF Head(results).isArray THEN Head(results).items
          ELSE << Head(results).item >>) \o flat(Tail(results))

\* Boolean(x) on an element of the flattened array: every element is an object
Truthy(x) == TRUE

\* researchResults.flat().filter(Boolean)
flattenedResults(researchResults) == SelectSeq(flat(researchResults), Truthy)

\* the citations of the response: one projection per flattened result
Citation(result) ==
    [title |-> Field(result, "title"), authors |-> Field(result, "authors"),
     source |-> Field(result, "source"), link |-> Field(result, "link"),
     date |-> Field(result, "date")]

\* citations built in reverse order of the results
citations_Reversed(flattened) ==
    [i \in 1..Len(flattened) |-> Citation(flattened[Len(flattened) + 1 - i])]

citations(flattened) == [i \in 1..Len(flattened) |-> Citation(flattened[i])]

\* prepareMessages: the numbered rendering of the results, the query and the
\* optional document block of the user message (the fixed text is left out)
prepareMessages(query, results, hasDocument, documentAnalysis) ==
    [query |-> query,
     formattedResearch |->
        [i \in 1..Len(results) |->
            [index |-> i,
             title |-> Field(results[i], "title"),
             authors |-> Field(results[i], "authors"),
             date |-> Field(results[i], "date"),
             source |-> Field(results[i], "source"),
             link |-> Field(results[i], "link"),
             summary |-> Field(results[i], "summary")]],
     documentContext |->
        IF hasDocument
        THEN << [summary |-> documentAnalysis.summary,
                 topics |-> documentAnalysis.topics,
                 wordCount |-> documentAnalysis.wordCount] >>
        ELSE << >>]

\* String.prototype.trim on the blanks of a query
RECURSIVE trimStart(_)
trimStart(s) == IF s # << >> /\ Head(s) = " " THEN trimStart(Tail(s)) ELSE s

RECURSIVE trimEnd(_)
trimEnd(s) ==
    IF s # << >> /\ s[Len(s)] = " " THEN trimEnd(SubSeq(s, 1, Len(s) - 1)) ELSE s

trim(s) == trimEnd(trimStart(s))

\* s.split('#')[0]: the text before the first '#'
RECURSIVE beforeHash(_)
beforeHash(s) ==
    IF s = << >> \/ Head(s) = "#" THEN << >>
    ELSE << Head(s) >> \o beforeHash(Tail(s))

\* getLocalResponse: the templated answer around the query recovered from the
\* user message by split('# Research Query')[1].split('#')[0].trim()
getLocalResponse(messages) ==
    [text |-> "local template", query |-> trim(beforeHash(messages.query))]

\* the text a real provider answers with
ProviderResponse == [text |-> "provider completion", query |-> << >>]

\* a catch block that throws the wrapped error without logging it
ProcessResearchCatch_Silent(status, sessionId, message) ==
    [kind |-> "throw",
     status |-> status,
     message |-> "Failed to process research with AI: " \o message]

\* catch (error) of processResearch: log the error, throw the wrapped error
ProcessResearchCatch(status, sessionId, message) ==
    [kind |-> "throw",
     status |-> LogIfSession(status, sessionId,
                    EvS("Error in AI processing: " \o message, "AI Service")),
     message |-> "Failed to process research with AI: " \o message]

\* processResearch after the provider's answer: log, build {response, citations}
ProcessResearchEnd(status, sessionId, provider, flattened, response) ==
    [kind |-> "return",
     status |-> LogIfSession(status, sessionId,
                    EvS("AI analysis complete, generating final response",
                        ProviderSource(provider))),
     value |-> [response |-> response, citations |-> citations(flattened)]]

\* processResearch up to the provider call
ProcessResearchBegin(status, query, researchResults, hasDocument, documentAnalysis, sessionId) ==
    LET s1 == LogIfSession(status, sessionId,
                  EvS("Summarizing research findings", "AI Service"))
        flattened == flattenedResults(researchResults)
        s2 == LogIfSession(s1, sessionId,
                  EvS("Found " \o ToString(Len(flattened))
                      \o " relevant sources for research", "Research Aggregator"))
        messages == prepareMessages(query, flattened, hasDocument, documentAnalysis)
        provider == IF env.AI_PROVIDER # "" THEN env.AI_PROVIDER ELSE "openai"
        apiKey == getApiKey(provider)
        s3 == LogIfSession(s2, sessionId,
                  EvS("Querying AI model (" \o provider \o ")",
                      ProviderSource(provider)))
    IN  IF apiKey = ""
        THEN ProcessResearchCatch(s2, sessionId,
                 "AI provider API key not configured for " \o provider)
        ELSE IF ProviderToLowerCase(provider) \in {"openai", "anthropic"}
        THEN [kind |-> "await", status |-> s3, provider |-> provider,
              flattened |-> flattened, messages |-> messages]
        ELSE IF ProviderToLowerCase(provider) = "local"
        THEN ProcessResearchEnd(s3, sessionId, provider, flattened,
                                getLocalResponse(messages))
        ELSE ProcessResearchCatch(s3, sessionId,
                 "Unsupported AI provider: " \o provider)

-----------------------------------------------------------------------------
(* QueryController.handleResearchQuery *)

(* Node runs a handler without interruption until it awaits network I/O.   *)
(* The handler awaits the network in two places: the arXiv call inside     *)
(* SustainabilityService.getResearch and the provider call inside          *)
(* AIService.processResearch.  The other awaits are on promises that are   *)
(* already settled; they only pass through the microtask queue, which no   *)
(* other request can enter.  A request is therefore at one of:             *)
(*   "idle"  - the request has not arrived yet                             *)
(*   "arxiv" - suspended in the arXiv call                                 *)
(*   "ai"    - suspended in the model provider's call                      *)
(*   "done"  - the response has been sent                                  *)
(* A machine state m is [status, complete, r]: the two global maps and the *)
(* request's own record.                                                   *)

NoResponse == [status |-> 0]

NoPending == [provider |-> "", flattened |-> << >>]

IdleRequest ==
    [pc |-> "idle",
     body |-> [query |-> << >>],
     validated |-> FALSE,        \* passed the two checks of lines 20-26
     category |-> "none",
     researchResults |-> << >>,
     calls |-> << >>,            \* adapters whose getResearch was called, in order
     synth |-> 0,                \* number of calls of AIService.processResearch
     arxiv |-> << >>,            \* outcome of the arXiv call, once it is known
     model |-> << >>,            \* outcome of the provider call, once it is known
     pending |-> NoPending,      \* locals of processResearch kept over its await
     res |-> NoResponse]

Query(m)     == m.r.body["query"]
SessionId(m) == m.r.body["sessionId"]

\* res.status(code).json(body) / res.json(body): the handler is finished
Respond(m, code, body) ==
    [m EXCEPT !.r.pc = "done", !.r.res = [status |-> code, body |-> body]]

\* catch (error) of handleResearchQuery
HandlerCatch(m, message) ==
    Respond(m, 500, [message |-> "Error processing query", error |-> message])

\* lines 119-123: mark complete, send the AI response
HandlerFinish(m, aiResponse) ==
    Respond([m EXCEPT !.complete = SetKey(@, SessionId(m), TRUE)], 200, aiResponse)

\* lines 110-117 and what follows the return or throw of processResearch
HandlerProcessWithAI(m) ==
    LET s1 == Push(m.status, SessionId(m),
                   EvS("Processing research with AI analysis", "OpenAI"))
        hasDoc == HasDocumentContext(m.r.body)
        out == ProcessResearchBegin(s1, Query(m), m.r.researchResults, hasDoc,
                   IF hasDoc THEN m.r.body["documentContext"] ELSE DocA,
                   SessionId(m))
        m1 == [m EXCEPT !.status = out.status, !.r.synth = @ + 1]
    IN  CASE out.kind = "await" ->
               [m1 EXCEPT !.r.pc = "ai",
                          !.r.pending = [provider |-> out.provider,
                                         flattened |-> out.flattened]]
          [] out.kind = "return" -> HandlerFinish(m1, out.value)
          [] out.kind = "throw"  -> HandlerCatch(m1, out.message)

\* lines 96-108: the document context is pushed as a plain object
HandlerDocument(m) ==
    IF HasDocumentContext(m.r.body)
    THEN HandlerProcessWithAI(
             [m EXCEPT !.status = Push(@, SessionId(m),
                                       Ev("Analyzing uploaded document context")),
                       !.r.researchResults =
                           Append(@, Obj([source |-> "Document Analysis",
                                          data |-> m.r.body["documentContext"]]))])
    ELSE HandlerProcessWithAI(m)

\* the value an awaited getResearch call gives back to the handler: its array
\* is pushed onto researchResults; an exception goes to the handler's catch
AfterGetResearch(m, out, next(_)) ==
    IF out.raised
    THEN HandlerCatch([m EXCEPT !.status = out.status], out.message)
    ELSE next([m EXCEPT !.status = out.status,
                        !.r.researchResults = Append(@, Arr(out.value))])

\* lines 86-94: the fallback adapter, always
HandlerFallback(m) ==
    LET s1 == Push(m.status, SessionId(m),
                   EvS("Searching general knowledge sources",
                       "Wikipedia and general databases"))
    IN  AfterGetResearch([m EXCEPT !.r.calls = Append(@, "fallback")],
                         FallbackGetResearch(s1, Query(m), SessionId(m)),
                         HandlerDocument)

\* the market branch taken for the market category only
HandlerMarket_MarketOnly(m) ==
    IF m.r.category = "market"
    THEN LET s1 == Push(m.status, SessionId(m),
                        EvS("Retrieving market trend data",
                            "Market analytics providers"))
         IN  AfterGetResearch([m EXCEPT !.r.calls = Append(@, "market")],
                              MarketGetResearch(s1, Query(m), SessionId(m)),
                              HandlerFallback)
    ELSE HandlerFallback(m)

\* lines 75-84
HandlerMarket(m) ==
    IF m.r.category = "market" \/ m.r.category = "general"
    THEN LET s1 == Push(m.status, SessionId(m),
                        EvS("Retrieving market trend data",
                            "Market analytics providers"))
         IN  AfterGetResearch([m EXCEPT !.r.calls = Append(@, "market")],
                              MarketGetResearch(s1, Query(m), SessionId(m)),
                              HandlerFallback)
    ELSE HandlerFallback(m)

\* the leasing branch with the announcing event pushed after the call
HandlerLeasing_AnnouncesAfter(m) ==
    IF m.r.category = "leasing" \/ m.r.category = "general"
    THEN LET announce(mm) ==
                 HandlerMarket([mm EXCEPT !.status =
                                   Push(@, SessionId(mm),
                                        EvS("Analyzing leasing market information",
                                            "Leasing databases"))])
         IN  AfterGetResearch([m EXCEPT !.r.calls = Append(@, "leasing")],
                              LeasingGetResearch(m.status, Query(m), SessionId(m)),
                              announce)
    ELSE HandlerMarket(m)

\* lines 64-73
HandlerLeasing(m) ==
    IF m.r.category = "leasing" \/ m.r.category = "general"
    THEN LET s1 == Push(m.status, SessionId(m),
                        EvS("Analyzing leasing market information",
                            "Leasing databases"))
         IN  AfterGetResearch([m EXCEPT !.r.calls = Append(@, "leasing")],
                              LeasingGetResearch(s1, Query(m), SessionId(m)),
                              HandlerMarket)
    ELSE HandlerMarket(m)

\* lines 53-60: the sustainability adapter is called and suspends in arXiv
HandlerSustainability(m) ==
    IF m.r.category = "sustainability" \/ m.r.category = "general"
    THEN LET s1 == Push(m.status, SessionId(m),
                        EvS("Gathering sustainability research data",
                            "Sustainability databases"))
         IN  [m EXCEPT !.status = SustainabilityGetResearchBegin(s1, SessionId(m)),
                       !.r.calls = Append(@, "sustainability"),
                       !.r.pc = "arxiv"]
    ELSE HandlerLeasing(m)

\* lines 60-61 resumed: the arXiv call has completed
HandlerSustainabilityResume(m, outcome) ==
    AfterGetResearch([m EXCEPT !.r.arxiv = << outcome >>],
                     SustainabilityGetResearchEnd(m.status, Query(m),
                                                  SessionId(m), outcome),
                     HandlerLeasing)

\* lines 117-127 resumed: the provider call has completed
HandlerProcessWithAIResume(m, outcome) ==
    LET m1 == [m EXCEPT !.r.model = << outcome >>]
        out == IF outcome = "ok"
               THEN ProcessResearchEnd(m.status, SessionId(m), m.r.pending.provider,
                                       m.r.pending.flattened, ProviderResponse)
               ELSE ProcessResearchCatch(m.status, SessionId(m),
                                         "Request failed")
    IN  IF out.kind = "return"
        THEN HandlerFinish([m1 EXCEPT !.status = out.status], out.value)
        ELSE HandlerCatch([m1 EXCEPT !.status = out.status], out.message)

\* the handler with the reset of the session placed before the validation
handleResearchQuery_ResetFirst(m) ==
    LET m0 == IF SessionIdMissing(m.r.body) THEN m
              ELSE [m EXCEPT !.status = SetKey(@, SessionId(m), << >>),
                             !.complete = SetKey(@, SessionId(m), FALSE)]
    IN  IF QueryMissing(m.r.body)
        THEN Respond(m0, 400, [message |-> "Query is required"])
        ELSE IF SessionIdMissing(m.r.body)
        THEN Respond(m0, 400, [error |-> "Session ID is required"])
        ELSE LET sid == SessionId(m)
                 category == categorizeQuery(Query(m))
                 s2 == Push(m0.status, sid, Ev("Starting research query categorization"))
                 s3 == Push(s2, sid, Ev("Query categorized as: " \o category))
             IN  HandlerSustainability(
                     [m0 EXCEPT !.status = s3,
                                !.r.validated = TRUE, !.r.category = category])

\* the handler with the session created only when it has no entry yet
handleResearchQuery_NoReset(m) ==
    IF QueryMissing(m.r.body)
    THEN Respond(m, 400, [message |-> "Query is required"])
    ELSE IF SessionIdMissing(m.r.body)
    THEN Respond(m, 400, [error |-> "Session ID is required"])
    ELSE LET sid == SessionId(m)
             category == categorizeQuery(Query(m))
             s1 == IF sid \in DOMAIN m.status THEN m.status
                   ELSE SetKey(m.status, sid, << >>)
             c1 == IF sid \in DOMAIN m.complete THEN m.complete
                   ELSE SetKey(m.complete, sid, FALSE)
             s2 == Push(s1, sid, Ev("Starting research query categorization"))
             s3 == Push(s2, sid, Ev("Query categorized as: " \o category))
         IN  HandlerSustainability(
                 [m EXCEPT !.status = s3, !.complete = c1,
                           !.r.validated = TRUE, !.r.category = category])

\* lines 16-47: validation, reset of the session, categorization
handleResearchQuery(m) ==
    IF QueryMissing(m.r.body)
    THEN Respond(m, 400, [message |-> "Query is required"])
    ELSE IF SessionIdMissing(m.r.body)
    THEN Respond(m, 400, [error |-> "Session ID is required"])
    ELSE LET sid == SessionId(m)
             category == categorizeQuery(Query(m))
             s1 == SetKey(m.status, sid, << >>)
             c1 == SetKey(m.complete, sid, FALSE)
             s2 == Push(s1, sid, Ev("Starting research query categorization"))
             s3 == Push(s2, sid, Ev("Query categorized as: " \o category))
         IN  HandlerSustainability(
                 [m EXCEPT !.status = s3, !.complete = c1,
                           !.r.validated = TRUE, !.r.category = category])

-----------------------------------------------------------------------------
(* The server: requests arrive, their network calls complete *)

Machine(i) == [status |-> researchStatus, complete |-> researchComplete, r |-> req[i]]

Install(i, m) ==
    /\ researchStatus' = m.status
    /\ researchComplete' = m.complete
    /\ req' = [req EXCEPT ![i] = m.r]
    /\ statusRes' = NoResponse
    /\ UNCHANGED <<env, catQuery, catResult, call, reportVars>>

\* POST /api/query/research arrives and runs to its first network await
Submit(i) ==
    /\ req[i].pc = "idle"
    /\ \A j \in Reqs : j < i => req[j].pc # "idle"
    /\ \E body \in Bodies :
          Install(i, handleResearchQuery(
                         [Machine(i) EXCEPT !.r = [IdleRequest EXCEPT !.body = body]]))

\* the arXiv call of request i completes; the handler runs to its next await
ArXivReturns(i) ==
    /\ req[i].pc = "arxiv"
    /\ \E outcome \in ArXivOutcomes :
          Install(i, HandlerSustainabilityResume(Machine(i), outcome))

\* the provider call of request i completes; the handler runs to its end
ModelReturns(i) ==
    /\ req[i].pc = "ai"
    /\ \E outcome \in ModelOutcomes :
          Install(i, HandlerProcessWithAIResume(Machine(i), outcome))

\* no status poll, stand-alone call or report request has been made
NoCall == [fn |-> "none"]

NothingElse ==
    /\ statusRes = NoResponse
    /\ call = NoCall
    /\ reportStore = [id \in {} |-> [citations |-> << >>]]
    /\ timeouts = [id \in {} |-> "pending"]
    /\ reportRes = NoResponse

\* index.js lines 89-91: both maps start empty
Init ==
    /\ researchStatus = [s \in {} |-> << >>]
    /\ researchComplete = [s \in {} |-> FALSE]
    /\ env \in EnvConfigs
    /\ req = [i \in Reqs |-> IdleRequest]
    /\ catQuery = << >>
    /\ catResult = "none"
    /\ NothingElse

Next ==
    \E i \in Reqs :
        \/ Submit(i)
        \/ ArXivReturns(i)
        \/ ModelReturns(i)

Spec == Init /\ [][Next]_vars

-----------------------------------------------------------------------------
(* QueryController.getResearchStatus, polled while requests run *)

\* the session ids a client polls: one that requests carry and one that no
\* request carries
PollIds == {"s1", "s3"}

\* lines 191-207; "" stands for a missing route parameter
getResearchStatus(status, complete, sessionId) ==
    IF sessionId = ""
    THEN [status |-> 400, body |-> [message |-> "Session ID is required"]]
    ELSE [status |-> 200,
          body |-> [sessionId |-> sessionId,
                    steps |-> IF sessionId \in DOMAIN status
                              THEN status[sessionId] ELSE << >>,
                    complete |-> IF sessionId \in DOMAIN complete
                                 THEN complete[sessionId] ELSE FALSE]]

\* a status handler that registers the session id it is asked about
Poll_CreatesEntry(sessionId) ==
    /\ statusRes' = getResearchStatus(researchStatus, researchComplete, sessionId)
    /\ researchStatus' = IF sessionId \in DOMAIN researchStatus THEN researchStatus
                         ELSE SetKey(researchStatus, sessionId, << >>)
    /\ UNCHANGED <<researchComplete, env, req, catQuery, catResult, call, reportVars>>

\* GET /api/query/status/:sessionId
Poll(sessionId) ==
    /\ statusRes' = getResearchStatus(researchStatus, researchComplete, sessionId)
    /\ UNCHANGED <<researchStatus, researchComplete, env, req>>
    /\ UNCHANGED <<catQuery, catResult, call, reportVars>>

NextStatus ==
    \/ Next
    \/ \E sessionId \in PollIds : Poll(sessionId)

\* the polled server runs with no provider configured or with OpenAI
InitStatus == Init /\ env.AI_PROVIDER \in {"", "OpenAI"}

SpecStatus == InitStatus /\ [][NextStatus]_vars

-----------------------------------------------------------------------------
(* The adapters, the providers and the synthesis step called on their own, *)
(* with any session id, on maps that hold entries for some sessions        *)

\* the log of a session whose request has just been categorized
SeedLog == << Ev("Starting research query categorization"),
              Ev("Query categorized as: general") >>

\* session ids passed to a call; "" stands for an omitted argument
CallIds == SessionIds \cup {""}

\* SustainabilityService.getResearch as one call, the answer of arXiv given
SustainabilityGetResearch(status, query, sessionId, outcome) ==
    SustainabilityGetResearchEnd(SustainabilityGetResearchBegin(status, sessionId),
                                 query, sessionId, outcome)

\* the arXiv answer noted for an adapter that makes no arXiv call
NoArXiv == [failed |-> TRUE, entries |-> 0]

\* getResearch of the named adapter
GetResearch(fn, status, query, sessionId, outcome) ==
    CASE fn = "sustainability" -> SustainabilityGetResearch(status, query, sessionId, outcome)
      [] fn = "leasing"        -> LeasingGetResearch(status, query, sessionId)
      [] fn = "market"         -> MarketGetResearch(status, query, sessionId)
      [] fn = "fallback"       -> FallbackGetResearch(status, query, sessionId)

\* AIService.processResearch as one call, the answer of the provider given
processResearch(status, query, researchResults, sessionId, outcome) ==
    LET begin == ProcessResearchBegin(status, query, researchResults, FALSE, DocA, sessionId)
        end   == IF begin.kind # "await" THEN begin
                 ELSE IF outcome = "ok"
                 THEN ProcessResearchEnd(begin.status, sessionId, begin.provider,
                                         begin.flattened, ProviderResponse)
                 ELSE ProcessResearchCatch(begin.status, sessionId, "Request failed")
    IN  IF end.kind = "return" THEN Returned(end.status, end.value)
        ELSE Raised(end.status, end.message)

\* the result of a call without the map it leaves
Outcome(out) == [f \in DOMAIN out \ {"status"} |-> out[f]]

\* no log has reached the length at which the stand-alone calls stop
LogsShort == \A s \in DOMAIN researchStatus : Len(researchStatus[s]) < MaxLog

CallGetResearch(fn, query, sessionId, outcome) ==
    LET out == GetResearch(fn, researchStatus, query, sessionId, outcome)
    IN  /\ LogsShort
        /\ researchStatus' = out.status
        /\ call' = [fn |-> fn, query |-> query, sessionId |-> sessionId,
                    arxiv |-> outcome, out |-> Outcome(out)]
        /\ UNCHANGED <<researchComplete, env, req, catQuery, catResult>>
        /\ UNCHANGED <<statusRes, reportVars>>

\* the synthesis step on the array the latest adapter call returned
CallProcessResearch(query, sessionId, outcome) ==
    LET researchResults == IF call.fn \in {"sustainability", "fallback"}
                           THEN << Arr(call.out.value) >> ELSE << >>
        out == processResearch(researchStatus, query, researchResults, sessionId, outcome)
    IN  /\ LogsShort
        /\ researchStatus' = out.status
        /\ call' = [fn |-> "processResearch", query |-> query,
                    sessionId |-> sessionId, model |-> outcome,
                    researchResults |-> researchResults, out |-> Outcome(out)]
        /\ UNCHANGED <<researchComplete, env, req, catQuery, catResult>>
        /\ UNCHANGED <<statusRes, reportVars>>

\* a provider function called on its own
CallProvider(fn, value) ==
    /\ call' = [fn |-> fn, out |-> [raised |-> FALSE, value |-> value]]
    /\ UNCHANGED <<researchStatus, researchComplete, env, req, catQuery, catResult>>
    /\ UNCHANGED <<statusRes, reportVars>>

\* LeasingService.processQuery and FallbackService.processQuery, the adapters'
\* provider chains, called on their own

\* what searchZillow meets: no ZILLOW_API_KEY, a failed HTTP call or an
\* unparsable answer, or an answer
ZillowOutcomes == {"no key", "error", "data"}

\* searchZillow, lines 57-97: one record on success, [] on any error
searchZillow(outcome) ==
    IF outcome = "data"
    THEN << Record("Commercial Lease Rate Data", "Zillow Research", "Zillow",
                   "https://www.zillow.com/research/", "Based on Zillow data...",
                   << >>, "market_report") >>
    ELSE << >>

\* searchCoStar, lines 104-117: the mock record
searchCoStar ==
    << Record("Office Space Vacancy Report Q2 2023 (Mock CoStar Data)",
              "CoStar Market Analytics", "CoStar", "https://www.costar.com/",
              "The Q2 2023 report indicates that office vacancy rates have stabilized",
              << >>, "market_report") >>

getGeneralLeasingInfo ==
    Record("Current Commercial Real Estate Leasing Trends", "CRE Research Team",
           "Internal Analysis", "#",
           "Commercial real estate leasing continues to evolve",
           << >>, "market_report")

\* LeasingService.processQuery, the answer of Zillow given
LeasingProcessQuery(query, zillow) ==
    LET zillowResults == searchZillow(zillow)
        results == IF Len(zillowResults) < 3
                   THEN zillowResults \o searchCoStar
                   ELSE zillowResults
    IN  [raised |-> FALSE,
         value  |-> IF Len(results) = 0 THEN << getGeneralLeasingInfo >>
                    ELSE results]

\* what the Bing search meets: BING_SEARCH_API_KEY unset (no call is made), a
\* failed HTTP call or an answer without webPages, or an answer of n pages
BingOutcomes ==
    { [key |-> FALSE, failed |-> TRUE, pages |-> 0],
      [key |-> TRUE,  failed |-> TRUE, pages |-> 0] }
    \cup { [key |-> TRUE, failed |-> FALSE, pages |-> n] : n \in 0..MaxEntries }

\* webSearch, lines 69-114: the pages mapped to records, [] on any error
webSearch(outcome) ==
    IF ~outcome.key \/ outcome.failed THEN << >>
    ELSE [i \in 1..outcome.pages |->
             Record("page " \o ToString(i), "displayUrl", "hostname",
                    "https://hostname/" \o ToString(i), "snippet", << >>,
                    "web_content")]

\* webScrape, lines 121-137: the mock record
webScrape ==
    << Record("Latest Commercial Real Estate Market Insights",
              "NAR Commercial Research", "National Association of Realtors",
              "https://www.nar.realtor/commercial-market-insights",
              "Recent market analysis from NAR", << >>, "web_content") >>

getGeneralInfo ==
    Record("General Commercial Real Estate Information", "CRE Research Team",
           "Internal Database", "#",
           "Commercial real estate encompasses a range of property types",
           << >>, "web_content")

\* FallbackService.processQuery, the answers of Wikipedia and Bing given
FallbackProcessQuery(query, wikipedia, bing) ==
    LET wikipediaResults == searchWikipedia(wikipedia)
        searched == IF bing.key /\ Len(wikipediaResults) < 3
                    THEN wikipediaResults \o webSearch(bing)
                    ELSE wikipediaResults
        results  == IF Len(searched) < 3 THEN searched \o webScrape
                    ELSE searched
    IN  [raised |-> FALSE,
         value  |-> IF Len(results) = 0 THEN << getGeneralInfo >> ELSE results]

CallLeasingProcessQuery(query, zillow) ==
    /\ call' = [fn |-> "LeasingService.processQuery", query |-> query,
                zillow |-> zillow, out |-> LeasingProcessQuery(query, zillow)]
    /\ UNCHANGED <<researchStatus, researchComplete, env, req, catQuery, catResult>>
    /\ UNCHANGED <<statusRes, reportVars>>

CallFallbackProcessQuery(query, wikipedia, bing) ==
    /\ call' = [fn |-> "FallbackService.processQuery", query |-> query,
                wikipedia |-> wikipedia, bing |-> bing,
                out |-> FallbackProcessQuery(query, wikipedia, bing)]
    /\ UNCHANGED <<researchStatus, researchComplete, env, req, catQuery, catResult>>
    /\ UNCHANGED <<statusRes, reportVars>>

InitCalls ==
    /\ \E ids \in SUBSET SessionIds :
          /\ researchStatus = [s \in ids |-> SeedLog]
          /\ researchComplete = [s \in ids |-> FALSE]
    /\ env \in EnvConfigs
    /\ req = [i \in Reqs |-> IdleRequest]
    /\ catQuery = << >>
    /\ catResult = "none"
    /\ NothingElse

NextCalls ==
    \/ \E sessionId \in CallIds, outcome \in ArXivOutcomes :
          CallGetResearch("sustainability", Q_LeedTrends, sessionId, outcome)
    \/ \E fn \in {"leasing", "market", "fallback"}, sessionId \in CallIds :
          CallGetResearch(fn, Q_LeedTrends, sessionId, NoArXiv)
    \/ \E sessionId \in CallIds, outcome \in ModelOutcomes :
          CallProcessResearch(Q_LeedTrends, sessionId, outcome)
    \/ \E outcome \in WikipediaOutcomes :
          CallProvider("searchWikipedia", searchWikipedia(outcome))
    \/ \E outcome \in ArXivOutcomes :
          CallProvider("searchArXiv", searchArXiv(outcome))
    \/ \E zillow \in ZillowOutcomes :
          CallLeasingProcessQuery(Q_LeedTrends, zillow)
    \/ \E wikipedia \in WikipediaOutcomes, bing \in BingOutcomes :
          CallFallbackProcessQuery(Q_LeedTrends, wikipedia, bing)
    \/ CallProvider("searchLEED", searchLEED(Q_LeedTrends).value)

SpecCalls == InitCalls /\ [][NextCalls]_vars

-----------------------------------------------------------------------------
(* Report controller: generateReport, its expiry timer, downloadReport *)

\* request bodies of POST /generate: with query results, with a document
\* analysis, with both, with citations only, empty
ReportBodies ==
    { [queryResults |-> "results", citations |-> << "[1] citation" >>],
      [documentAnalysis |-> "analysis"],
      [queryResults |-> "results", documentAnalysis |-> "analysis", citations |-> << >>],
      [citations |-> << "[1] citation" >>],
      [citations |-> << >>] }

\* pdf-lib renders the page or throws (a character the font cannot encode)
RenderOutcomes == {"ok", "error"}

\* ids of reports: crypto.randomUUID() gives an id never given before
ReportIds == 1..MaxReports

\* lines 67-173: the sections drawn on the page
RenderPdf(body) ==
    [queryResults |-> Field(body, "queryResults"),
     documentAnalysis |-> Field(body, "documentAnalysis"),
     citations |-> IF "citations" \in DOMAIN body THEN body.citations ELSE << >>]

\* POST /generate, lines 59-198
generateReport(body, outcome) ==
    IF "queryResults" \notin DOMAIN body /\ "documentAnalysis" \notin DOMAIN body
    THEN /\ reportRes' = [op |-> "generate", status |-> 400,
                          body |-> [error |-> "No content provided for report generation"]]
         /\ UNCHANGED <<reportStore, timeouts>>
    ELSE IF outcome = "error"
    THEN /\ reportRes' = [op |-> "generate", status |-> 500,
                          body |-> [error |-> "An error occurred while generating the report"]]
         /\ UNCHANGED <<reportStore, timeouts>>
    ELSE LET reportId == Cardinality(DOMAIN timeouts) + 1
         IN  /\ reportId \in ReportIds
             /\ reportStore' = SetKey(reportStore, reportId, RenderPdf(body))
             /\ timeouts' = SetKey(timeouts, reportId, "pending")
             /\ reportRes' = [op |-> "generate", status |-> 200,
                              body |-> [message |-> "Report generated successfully",
                                        reportId |-> reportId]]

GenerateReport ==
    /\ \E body \in ReportBodies, outcome \in RenderOutcomes : generateReport(body, outcome)
    /\ UNCHANGED <<researchStatus, researchComplete, env, req>>
    /\ UNCHANGED <<catQuery, catResult, statusRes, call>>

\* lines 182-184: the callback of setTimeout runs, 30 minutes after the report
\* was stored
TimeoutFires(reportId) ==
    /\ reportId \in DOMAIN timeouts
    /\ timeouts[reportId] = "pending"
    /\ reportStore' = [id \in DOMAIN reportStore \ {reportId} |-> reportStore[id]]
    /\ timeouts' = [timeouts EXCEPT ![reportId] = "fired"]
    /\ UNCHANGED <<researchStatus, researchComplete, env, req, reportRes>>
    /\ UNCHANGED <<catQuery, catResult, statusRes, call>>

\* GET /download/:id, lines 200-224
downloadReport(id) ==
    IF id \notin DOMAIN reportStore
    THEN [op |-> "download", id |-> id, status |-> 404,
          body |-> [error |-> "Report not found or expired"]]
    ELSE [op |-> "download", id |-> id, status |-> 200, body |-> reportStore[id]]

DownloadReport(id) ==
    /\ reportRes' = downloadReport(id)
    /\ UNCHANGED <<researchStatus, researchComplete, env, req, reportStore, timeouts>>
    /\ UNCHANGED <<catQuery, catResult, statusRes, call>>

InitReports ==
    /\ researchStatus = [s \in {} |-> << >>]
    /\ researchComplete = [s \in {} |-> FALSE]
    /\ env = [AI_PROVIDER |-> "local", OPENAI_API_KEY |-> "", ANTHROPIC_API_KEY |-> ""]
    /\ req = [i \in Reqs |-> IdleRequest]
    /\ catQuery = << >>
    /\ catResult = "none"
    /\ NothingElse

NextReports ==
    \/ GenerateReport
    \/ \E reportId \in ReportIds : TimeoutFires(reportId)
    \/ \E id \in ReportIds : DownloadReport(id)

SpecReports == InitReports /\ [][NextReports]_vars

-----------------------------------------------------------------------------
(* The categorizer alone, on generated queries *)

Vocabulary == {W_LEED, W_Green, W_current, W_lease, W_trends, W_office, W_Vacancy}

RECURSIVE JoinWords(_)
JoinWords(ws) ==
    IF ws = << >> THEN << >>
    ELSE IF Len(ws) = 1 THEN Head(ws)
    ELSE Head(ws) \o << " " >> \o JoinWords(Tail(ws))

GeneratedQueries ==
    { JoinWords(ws) : ws \in UNION { [1..n -> Vocabulary] : n \in 0..MaxWords } }
    \cup Queries \cup {Q_GreenLease}

Categorize ==
    /\ catResult = "none"
    /\ catResult' = categorizeQuery(catQuery)
    /\ UNCHANGED <<researchStatus, researchComplete, env, req, catQuery>>
    /\ UNCHANGED <<statusRes, call, reportVars>>

NextQuery ==
    /\ catResult # "none"
    /\ catQuery' \in GeneratedQueries
    /\ catResult' = "none"
    /\ UNCHANGED <<researchStatus, researchComplete, env, req>>
    /\ UNCHANGED <<statusRes, call, reportVars>>

InitCat ==
    /\ researchStatus = [s \in {} |-> << >>]
    /\ researchComplete = [s \in {} |-> FALSE]
    /\ env = [AI_PROVIDER |-> "local", OPENAI_API_KEY |-> "", ANTHROPIC_API_KEY |-> ""]
    /\ req = [i \in Reqs |-> IdleRequest]
    /\ catQuery \in GeneratedQueries
    /\ catResult = "none"
    /\ NothingElse

NextCat == Categorize \/ NextQuery

SpecCat == InitCat /\ [][NextCat]_vars

-----------------------------------------------------------------------------
(* QueryCategorizer.categorize beside QueryController.categorizeQuery, on   *)
(* the three keyword counts                                                *)

\* QueryCategorizer.categorize, lines 49-59: the category from the scores
categorizeScores(sustainabilityScore, leasingScore, marketScore) ==
    IF sustainabilityScore > leasingScore /\ sustainabilityScore > marketScore
    THEN "sustainability"
    ELSE IF leasingScore > sustainabilityScore /\ leasingScore > marketScore
    THEN "leasing"
    ELSE IF marketScore > sustainabilityScore /\ marketScore > leasingScore
    THEN "market_trends"
    ELSE "general"

\* the triples of counts of sustainability, leasing and market keywords
CountTriples == (0..MaxCount) \X (0..MaxCount) \X (0..MaxCount)

\* both implementations decide on the drawn counts
CategorizeBoth ==
    /\ call.fn = "counts"
    /\ call' = [fn |-> "categorized", counts |-> call.counts,
                controller |-> BestCategory(call.counts[1], call.counts[2], call.counts[3]),
                categorizer |-> categorizeScores(call.counts[1], call.counts[2], call.counts[3])]
    /\ UNCHANGED <<researchStatus, researchComplete, env, req, catQuery, catResult>>
    /\ UNCHANGED <<statusRes, reportVars>>

NextCounts ==
    /\ call.fn = "categorized"
    /\ \E counts \in CountTriples : call' = [fn |-> "counts", counts |-> counts]
    /\ UNCHANGED <<researchStatus, researchComplete, env, req, catQuery, catResult>>
    /\ UNCHANGED <<statusRes, reportVars>>

InitCounts ==
    /\ researchStatus = [s \in {} |-> << >>]
    /\ researchComplete = [s \in {} |-> FALSE]
    /\ env = [AI_PROVIDER |-> "local", OPENAI_API_KEY |-> "", ANTHROPIC_API_KEY |-> ""]
    /\ req = [i \in Reqs |-> IdleRequest]
    /\ catQuery = << >>
    /\ catResult = "none"
    /\ statusRes = NoResponse
    /\ reportStore = [id \in {} |-> [citations |-> << >>]]
    /\ timeouts = [id \in {} |-> "pending"]
    /\ reportRes = NoResponse
    /\ \E counts \in CountTriples : call = [fn |-> "counts", counts |-> counts]

SpecCounts == InitCounts /\ [][CategorizeBoth \/ NextCounts]_vars

-----------------------------------------------------------------------------
(* RSSFeedService.searchNews: the three feeds fetched one after the other, *)
(* their items scored against the query, the best two of each feed kept    *)

\* number of items a feed holds at most
MaxItems == 3

feedSources ==
    << [name |-> "Commercial Property Executive", source |-> "CPE"],
       [name |-> "GlobeSt", source |-> "GlobeSt"],
       [name |-> "NAIOP", source |-> "NAIOP"] >>

\* the query of the news search: "office rent"
Q_OfficeRent == <<"o", "f", "f", "i", "c", "e", " ", "r", "e", "n", "t">>

\* items of a feed, by title and description: "Retail mall" (score 0 for
\* the query), "Office" / "rent rises" (score 2), "CRE outlook" / "office"
\* (score 3)
NewsItems ==
    { [title |-> <<"R", "e", "t", "a", "i", "l", " ", "m", "a", "l", "l">>, description |-> << >>],
      [title |-> <<"O", "f", "f", "i", "c", "e">>, description |-> <<"r", "e", "n", "t", " ", "r", "i", "s", "e", "s">>],
      [title |-> <<"C", "R", "E", " ", "o", "u", "t", "l", "o", "o", "k">>, description |-> <<"o", "f", "f", "i", "c", "e">>] }

\* what fetching and parsing one feed gives: an error, or its items
FeedOutcomes ==
    { [failed |-> TRUE, items |-> << >>] }
    \cup { [failed |-> FALSE, items |-> items] :
              items \in UNION { [1..n -> NewsItems] : n \in 0..MaxItems } }

\* s.split(' ')
RECURSIVE split(_)
split(s) ==
    IF \A i \in 1..Len(s) : s[i] # " " THEN << s >>
    ELSE LET k == CHOOSE i \in 1..Len(s) :
                      s[i] = " " /\ \A j \in 1..(i - 1) : s[j] # " "
         IN  << SubSeq(s, 1, k - 1) >> \o split(SubSeq(s, k + 1, Len(s)))

\* scoreRelevance, lines 37-54: one point for each query term found in the
\* lower-cased title and description, two more for a mention of CRE
scoreRelevance(queryTerms, title, description) ==
    LET text == toLowerCase(title \o << " " >> \o description)
    IN  Cardinality({ i \in 1..Len(queryTerms) : includes(text, queryTerms[i]) })
        + (IF \/ includes(text, <<"c", "o", "m", "m", "e", "r", "c", "i", "a", "l", " ", "r", "e", "a", "l", " ", "e", "s", "t", "a", "t", "e">>)
              \/ includes(text, <<"c", "r", "e">>)
           THEN 2 ELSE 0)

\* a sort that leaves the array as it is
SortByScore_Unsorted(scoredItems) == scoredItems

\* scoredItems.sort((a, b) => b.score - a.score): descending by score, items
\* of equal score in their order of arrival
SortByScore(scoredItems) ==
    LET n == Len(scoredItems)
        rank(i) == 1 + Cardinality({ j \in 1..n :
                          \/ scoredItems[j].score > scoredItems[i].score
                          \/ /\ scoredItems[j].score = scoredItems[i].score
                             /\ j < i })
    IN  [r \in 1..n |-> scoredItems[CHOOSE i \in 1..n : rank(i) = r]]

\* lines 85-97: the items of one feed scored, filtered, sorted, and the first
\* two taken; pos, the place of the item in the feed, stands for the identity
\* of the item object
TopItems(queryTerms, items) ==
    LET scoredItems ==
            SelectSeq([i \in 1..Len(items) |->
                          [item |-> items[i], pos |-> i,
                           score |-> scoreRelevance(queryTerms, items[i].title,
                                                    items[i].description)]],
                      LAMBDA s : s.score > 0)
        sorted == SortByScore(scoredItems)
    IN  SubSeq(sorted, 1, IF Len(sorted) < 2 THEN Len(sorted) ELSE 2)

\* lines 100-114: the record pushed for a kept item
NewsRecord(feed, item) ==
    [title |-> item.title, authors |-> feed.name, date |-> Today,
     source |-> feed.source, link |-> "#",
     summary |-> IF item.description # << >> THEN item.description
                 ELSE <<"N", "o", " ", "d", "e", "s", "c", "r", "i", "p", "t", "i", "o", "n", " ", "a", "v", "a", "i", "l", "a", "b", "l", "e">>,
     type |-> "news_article"]

\* searchNews up to the first feed
SearchNewsBegin(query) ==
    /\ call.fn # "searchNews"
    /\ call' = [fn |-> "searchNews", query |-> query,
                queryTerms |-> split(toLowerCase(query)),
                feed |-> 0, failed |-> FALSE, items |-> << >>,
                topItems |-> << >>, results |-> << >>]
    /\ UNCHANGED <<researchStatus, researchComplete, env, req, catQuery, catResult>>
    /\ UNCHANGED <<statusRes, reportVars>>

\* one turn of the loop over feedSources, the answer of the feed given;
\* a failed feed is skipped
SearchNewsFeed(outcome) ==
    /\ call.fn = "searchNews"
    /\ call.feed < Len(feedSources)
    /\ LET feed == feedSources[call.feed + 1]
           topItems == IF outcome.failed THEN << >>
                       ELSE TopItems(call.queryTerms, outcome.items)
       IN  call' = [call EXCEPT
                       !.feed = call.feed + 1,
                       !.failed = outcome.failed,
                       !.items = outcome.items,
                       !.topItems = topItems,
                       !.results = call.results \o
                           [k \in 1..Len(topItems) |->
                               NewsRecord(feed, topItems[k].item)]]
    /\ UNCHANGED <<researchStatus, researchComplete, env, req, catQuery, catResult>>
    /\ UNCHANGED <<statusRes, reportVars>>

\* return results
SearchNewsReturn ==
    /\ call.fn = "searchNews"
    /\ call.feed = Len(feedSources)
    /\ call' = [fn |-> "RSSFeedService.searchNews", query |-> call.query,
                out |-> [raised |-> FALSE, value |-> call.results]]
    /\ UNCHANGED <<researchStatus, researchComplete, env, req, catQuery, catResult>>
    /\ UNCHANGED <<statusRes, reportVars>>

InitNews ==
    /\ researchStatus = [s \in {} |-> << >>]
    /\ researchComplete = [s \in {} |-> FALSE]
    /\ env = [AI_PROVIDER |-> "local", OPENAI_API_KEY |-> "", ANTHROPIC_API_KEY |-> ""]
    /\ req = [i \in Reqs |-> IdleRequest]
    /\ catQuery = << >>
    /\ catResult = "none"
    /\ NothingElse

NextNews ==
    \/ SearchNewsBegin(Q_OfficeRent)
    \/ \E outcome \in FeedOutcomes : SearchNewsFeed(outcome)
    \/ SearchNewsReturn

SpecNews == InitNews /\ [][NextNews]_vars

-----------------------------------------------------------------------------
(* Properties *)

Topical == {"sustainability", "leasing", "market"}

Occurrences(seq, x) == Cardinality({k \in 1..Len(seq) : seq[k] = x})

\* the request has left the adapter phase (it awaits the provider or is done)
PastAdapters(i) == req[i].validated /\ req[i].pc \in {"ai", "done"}

Finished(i) == req[i].validated /\ req[i].pc = "done"

\* the adapter arrays of researchResults, and the number of records in them
AdapterArrays(results) == SelectSeq(results, LAMBDA e : e.isArray)

RECURSIVE RecordCount(_)
RecordCount(results) ==
    IF results = << >> THEN 0
    ELSE (IF Head(results).isArray THEN Len(Head(results).items) ELSE 0)
         + RecordCount(Tail(results))

\* C1: for a validated request each topical adapter is invoked iff the
\* category is its topic or general, the fallback adapter exactly once; a
\* non-general category runs 2 adapters, general runs 4
C1_AdapterSelection ==
    \A i \in Reqs :
        /\ (req[i].validated /\ req[i].pc = "arxiv") =>
              /\ req[i].calls = << "sustainability" >>
              /\ req[i].category \in {"sustainability", "general"}
        /\ PastAdapters(i) =>
              /\ \A t \in Topical :
                    Occurrences(req[i].calls, t) =
                        IF req[i].category = t \/ req[i].category = "general"
                        THEN 1 ELSE 0
              /\ Occurrences(req[i].calls, "fallback") = 1
              /\ Len(req[i].calls) = IF req[i].category = "general" THEN 4 ELSE 2

C1_Witness ==
    \E i, j \in Reqs :
        /\ Finished(i) /\ req[i].category = "general" /\ Len(req[i].calls) = 4
        /\ Finished(j) /\ req[j].category = "leasing" /\ Len(req[j].calls) = 2

\* the highest of the three counts is reached by two or more categories
TopTied(s, l, m) ==
    LET top == IF s >= l /\ s >= m THEN s ELSE IF l >= m THEN l ELSE m
    IN  Cardinality({c \in {"s", "l", "m"} :
                        (CASE c = "s" -> s [] c = "l" -> l [] c = "m" -> m) = top}) >= 2

\* C2: a query whose highest keyword count is shared by two or more
\* categories is categorized as general
C2_TieGivesGeneral ==
    catResult # "none" =>
        (TopTied(sustainabilityMatches(catQuery), leasingMatches(catQuery),
                 marketMatches(catQuery))
            => catResult = "general")

\* C3: a query in which one category's count is strictly greater than both
\* other counts is categorized as that category
C3_StrictWinner ==
    catResult # "none" =>
        LET s == sustainabilityMatches(catQuery)
            l == leasingMatches(catQuery)
            m == marketMatches(catQuery)
        IN  /\ (s > l /\ s > m) => catResult = "sustainability"
            /\ (l > s /\ l > m) => catResult = "leasing"
            /\ (m > s /\ m > l) => catResult = "market"

C3_Witness ==
    /\ catResult = "leasing"
    /\ sustainabilityMatches(catQuery) = 0
    /\ marketMatches(catQuery) = 0
    /\ leasingMatches(catQuery) = 2

NoKeyword(query) ==
    /\ sustainabilityMatches(query) = 0
    /\ leasingMatches(query) = 0
    /\ marketMatches(query) = 0

\* the queries of the requests that match no keyword of any category
NoKeywordQueries == {q \in Queries : NoKeyword(q)}

\* C4: a query that matches no keyword is categorized as general, and the
\* request then runs the three topical adapters and the fallback adapter
C4_NoMatchRunsAll ==
    \A i \in Reqs :
        (req[i].validated /\ req[i].body["query"] \in NoKeywordQueries) =>
            /\ req[i].category = "general"
            /\ PastAdapters(i) =>
                  req[i].calls = << "sustainability", "leasing", "market", "fallback" >>

C4_Witness ==
    \E i \in Reqs :
        /\ Finished(i)
        /\ req[i].body["query"] = Q_Hello
        /\ req[i].calls = << "sustainability", "leasing", "market", "fallback" >>

\* the step in which request i arrives with a missing query or session id
InvalidArrival(i) ==
    /\ req[i].pc = "idle"
    /\ req'[i].pc # "idle"
    /\ (QueryMissing(req'[i].body) \/ SessionIdMissing(req'[i].body))

\* C5: a request with a missing query or session id is answered 400, calls
\* no adapter and no synthesis, and leaves both progress maps as they were
C5_InvalidRequestRejected ==
    [][ \A i \in Reqs :
            InvalidArrival(i) =>
                /\ req'[i].pc = "done"
                /\ req'[i].res.status = 400
                /\ req'[i].calls = << >>
                /\ req'[i].synth = 0
                /\ researchStatus' = researchStatus
                /\ researchComplete' = researchComplete ]_vars

C5_Witness ==
    \E i \in Reqs :
        /\ req[i].pc = "done"
        /\ req[i].res.status = 400
        /\ QueryMissing(req[i].body)
        /\ ~SessionIdMissing(req[i].body)
        /\ req[i].body["sessionId"] \in DOMAIN researchStatus
        /\ Len(researchStatus[req[i].body["sessionId"]]) > 0
        /\ researchComplete[req[i].body["sessionId"]]

\* C6: a validated request leaves its session with complete = true at the
\* step in which it finishes, whether synthesis succeeded or failed
C6_CompleteAtFinish ==
    [][ \A i \in Reqs :
            (req[i].pc # "done" /\ req'[i].pc = "done" /\ req'[i].validated) =>
                researchComplete'[req'[i].body["sessionId"]] = TRUE ]_vars

\* the provider selection of processResearch finds a provider and a key
ProviderUsable ==
    LET p == IF env.AI_PROVIDER = "" THEN "openai" ELSE env.AI_PROVIDER
    IN  \/ p \in {"openai", "OpenAI"} /\ env.OPENAI_API_KEY # ""
        \/ p = "anthropic" /\ env.ANTHROPIC_API_KEY # ""
        \/ p = "local"

SynthesisFails(i) == ~ProviderUsable \/ req[i].model = << "error" >>

ArXivFailed(i) == req[i].arxiv # << >> /\ req[i].arxiv[1].failed

\* C7: a validated request is answered with an error iff the synthesis step
\* fails; a failed adapter call still gives a synthesized response built
\* from the remaining records
C7_ErrorOnlyFromSynthesis ==
    \A i \in Reqs :
        Finished(i) =>
            /\ (req[i].res.status # 200) <=> SynthesisFails(i)
            /\ (ArXivFailed(i) /\ ~SynthesisFails(i)) =>
                  /\ req[i].res.status = 200
                  /\ Len(req[i].res.body.citations) >= RecordCount(req[i].researchResults)
                  /\ RecordCount(req[i].researchResults) >= 2

C7_Witness ==
    \E i, j \in Reqs :
        /\ Finished(i) /\ ArXivFailed(i) /\ req[i].res.status = 200
        /\ Finished(j) /\ req[j].model = << "error" >> /\ req[j].res.status = 500

\* C8: every getResearch call returns a sequence to the handler (none raises),
\* and with the arXiv call failed the sustainability adapter returns at most
\* one record; the adapters without provider calls return one record
C8_AdaptersNeverRaise ==
    \A i \in Reqs :
        PastAdapters(i) =>
            /\ Len(AdapterArrays(req[i].researchResults)) = Len(req[i].calls)
            /\ \A k \in 1..Len(req[i].calls) :
                  LET out == AdapterArrays(req[i].researchResults)[k].items
                  IN  /\ (req[i].calls[k] = "sustainability" /\ ArXivFailed(i))
                          => Len(out) <= 1
                      /\ req[i].calls[k] # "sustainability" => Len(out) = 1

C8_Witness ==
    \E i \in Reqs :
        /\ PastAdapters(i)
        /\ ArXivFailed(i)
        /\ req[i].calls = << "sustainability", "fallback" >>
        /\ Len(AdapterArrays(req[i].researchResults)) = 2

\* C9: the citation list has the length of the flattened record sequence, and
\* its i-th entry is the {title, authors, source, link, date} projection of
\* the i-th record
C9_CitationsAligned ==
    \A i \in Reqs :
        (Finished(i) /\ req[i].res.status = 200) =>
            LET records == flattenedResults(req[i].researchResults)
                cites   == req[i].res.body.citations
            IN  /\ Len(cites) = Len(records)
                /\ \A k \in 1..Len(records) :
                      \A f \in {"title", "authors", "source", "link", "date"} :
                          cites[k][f] = Field(records[k], f)

C9_Witness ==
    \E i \in Reqs :
        /\ Finished(i)
        /\ req[i].res.status = 200
        /\ Len(req[i].res.body.citations) >= 4
        /\ req[i].res.body.citations[1].title # req[i].res.body.citations[2].title

\* C10: with a document context the "Document Analysis" entry comes after
\* all adapter outputs in researchResults, and the citation list leaves it
\* out: it has one entry per adapter-derived record
C10_DocumentNotCited ==
    \A i \in Reqs :
        (Finished(i) /\ req[i].res.status = 200 /\ HasDocumentContext(req[i].body)) =>
            LET results == req[i].researchResults
            IN  /\ ~results[Len(results)].isArray
                /\ results[Len(results)].item.source = "Document Analysis"
                /\ \A k \in 1..(Len(results) - 1) : results[k].isArray
                /\ Len(req[i].res.body.citations) = RecordCount(results)
                /\ \A k \in 1..Len(req[i].res.body.citations) :
                      req[i].res.body.citations[k].source # "Document Analysis"

\* the providers of the request gave nothing: its arXiv call, if made, failed
\* or held no entry
ProvidersEmpty(i) == req[i].arxiv = << >> \/ req[i].arxiv[1].entries = 0

\* C11: the request "What are current LEED certification trends?" without a
\* document context, with every provider empty, is categorized sustainability,
\* invokes exactly the sustainability and fallback adapters, and is answered
\* with at least one citation
C11_LeedTrendsSustainability ==
    \A i \in Reqs :
        ( /\ Finished(i)
          /\ req[i].body["query"] = Q_LeedTrends
          /\ ~HasDocumentContext(req[i].body)
          /\ ProvidersEmpty(i)
          /\ req[i].res.status = 200 ) =>
            /\ req[i].category = "sustainability"
            /\ req[i].calls = << "sustainability", "fallback" >>
            /\ Len(req[i].res.body.citations) >= 1

\* C12: the request "office vacancy rate forecast" is categorized market and
\* invokes exactly the market and fallback adapters
C12_OfficeVacancyMarket ==
    \A i \in Reqs :
        (req[i].validated /\ req[i].body["query"] = Q_OfficeVacancy) =>
            /\ req[i].category = "market"
            /\ req[i].pc # "arxiv"
            /\ PastAdapters(i) => req[i].calls = << "market", "fallback" >>

C12_Witness ==
    \E i \in Reqs :
        /\ Finished(i)
        /\ req[i].body["query"] = Q_OfficeVacancy
        /\ req[i].calls = << "market", "fallback" >>
        /\ req[i].res.status = 200

\* no credential of a model provider is configured
NoCredentials == env.OPENAI_API_KEY = "" /\ env.ANTHROPIC_API_KEY = ""

\* C13: with no model-provider credential configured the synthesis step
\* answers with the offline stub and the request succeeds
C13_NoCredentialsUsesStub ==
    \A i \in Reqs :
        (Finished(i) /\ NoCredentials) =>
            /\ req[i].res.status = 200
            /\ req[i].res.body.response.text = getLocalResponse([query |-> << >>]).text

\* the log a request with this body leaves for its session at its first
\* step when the server has never seen a session
FreshLog(body) ==
    handleResearchQuery([status |-> [s \in {} |-> << >>],
                         complete |-> [s \in {} |-> FALSE],
                         r |-> [IdleRequest EXCEPT !.body = body]]
                       ).status[body["sessionId"]]

\* C14: at the step in which a validated request begins for session s, the
\* log of s is emptied and its flag cleared before the request's first event
\* is appended: what getStatus(s) reports right after is the log of the new
\* request alone, whatever earlier requests for s had logged, and complete
\* is true only if the new request has already succeeded
C14_ResetBeforeEvents ==
    [][ \A i \in Reqs :
            (req[i].pc = "idle" /\ req'[i].validated) =>
                LET s == req'[i].body["sessionId"]
                    seen == getResearchStatus(researchStatus', researchComplete', s).body
                IN  /\ seen.steps = FreshLog(req'[i].body)
                    /\ Head(seen.steps) = Ev("Starting research query categorization")
                    /\ seen.complete =
                          (req'[i].pc = "done" /\ req'[i].res.status = 200) ]_vars

\* a request for s has succeeded, and a later request for s has begun and
\* is still executing
C14_Witness ==
    \E i, j \in Reqs :
        /\ i < j
        /\ Finished(i) /\ req[i].res.status = 200
        /\ req[j].validated /\ req[j].pc \in {"arxiv", "ai"}
        /\ req[j].body["sessionId"] = req[i].body["sessionId"]
        /\ researchComplete[req[j].body["sessionId"]] = FALSE
        /\ Len(researchStatus[req[j].body["sessionId"]]) <= 4

C19_EntriesNeverDeleted ==
    [][ /\ DOMAIN researchStatus \subseteq DOMAIN researchStatus'
        /\ DOMAIN researchComplete \subseteq DOMAIN researchComplete' ]_vars

\* both sessions have entries, requests have finished (one with an error),
\* and a poll has been answered
C19_Witness ==
    /\ DOMAIN researchStatus = SessionIds
    /\ DOMAIN researchComplete = SessionIds
    /\ \A i \in Reqs : Finished(i)
    /\ \E i \in Reqs : req[i].res.status = 500
    /\ statusRes.status = 200

\* the records of the adapter arrays, one array after the other
RECURSIVE ConcatItems(_)
ConcatItems(arrays) ==
    IF arrays = << >> THEN << >>
    ELSE Head(arrays).items \o ConcatItems(Tail(arrays))

AdapterOrder == << "sustainability", "leasing", "market", "fallback" >>

NormalCall(c) ==
    LET status == SetKey(researchStatus, "s1", SeedLog)
    IN  IF c.fn = "processResearch"
        THEN processResearch(status, c.query, c.researchResults, "s1", c.model)
        ELSE GetResearch(c.fn, status, c.query, "s1", c.arxiv)

RecordKinds == {"academic_paper", "market_report", "web_content",
                "certification_data", "news_article", "economic_data"}

\* C18: every record an adapter call or a provider call returns has a kind
\* of the data model's enumeration
C18_RecordKinds ==
    (call.fn \notin {"none", "processResearch"} /\ ~call.out.raised) =>
        \A k \in 1..Len(call.out.value) : call.out.value[k].type \in RecordKinds

\* C20: the report store never evicts: a download request for a report that
\* generateReport has stored is answered with the report, however much later
\* it is made
C20_ReportNeverEvicted ==
    ( /\ reportRes.status # 0
      /\ reportRes.op = "download"
      /\ reportRes.id \in DOMAIN timeouts ) =>
        reportRes.status = 200

\* request i is the only request that has written to the log of its session
AloneOnSession(i) ==
    /\ req[i].validated
    /\ \A j \in Reqs \ {i} :
          req[j].validated => req[j].body["sessionId"] # req[i].body["sessionId"]

\* who appended an event: 0 the categorization, 1/3/5/7 the orchestrator
\* announcing the sustainability / leasing / market / fallback adapter,
\* 2/4/6/8 that adapter itself, 9 the document step, 10 the synthesis
\* (announced by the orchestrator, logged by AIService); -1 nobody known
Phase(e) ==
    LET source == Field(e, "source")
    IN  CASE e.step = "Starting research query categorization" -> 0
          [] e.step \in {"Query categorized as: " \o c :
                            c \in {"sustainability", "leasing", "market", "general"}} -> 0
          [] source = "Sustainability databases" -> 1
          [] source \in {"arXiv", "USGBC LEED Database"} -> 2
          [] source = "Leasing databases" -> 3
          [] source = "Leasing Service" -> 4
          [] source = "Market analytics providers" -> 5
          [] source = "Market Service" -> 6
          [] source = "Wikipedia and general databases" -> 7
          [] source = "Fallback Service" -> 8
          [] e.step = "Analyzing uploaded document context" -> 9
          [] source \in {"AI Service", "Research Aggregator", "OpenAI",
                         "Anthropic", "local", "cohere"} -> 10
          [] OTHER -> -1

\* C21: in the log of a single request the event announcing an adapter comes
\* before every event of that adapter, the events of one adapter come before
\* the announcement of the next, and every adapter event comes before the
\* synthesis events
C21_AdaptersInSequence ==
    \A i \in Reqs :
        AloneOnSession(i) =>
            LET log == researchStatus[req[i].body["sessionId"]]
            IN  /\ \A k \in 1..Len(log) : Phase(log[k]) >= 0
                /\ \A k \in 1..(Len(log) - 1) : Phase(log[k]) <= Phase(log[k + 1])
                /\ \A k \in 1..Len(log) :
                      Phase(log[k]) \in {2, 4, 6, 8} =>
                          \E j \in 1..(k - 1) : Phase(log[j]) = Phase(log[k]) - 1

\* a request has run all four adapters and the synthesis, each leaving events
C21_Witness ==
    \E i \in Reqs :
        /\ AloneOnSession(i)
        /\ Finished(i)
        /\ \A p \in 0..8 \cup {10} :
              \E k \in 1..Len(researchStatus[req[i].body["sessionId"]]) :
                  Phase(researchStatus[req[i].body["sessionId"]][k]) = p

\* the request has been answered with the error of a failed synthesis step
FailedRequest(r) == r.validated /\ r.pc = "done" /\ r.res.status = 500

\* the event processResearch logs in its catch block
IsErrorEvent(e) ==
    /\ Field(e, "source") = "AI Service"
    /\ e.step \in {"Error in AI processing: " \o message :
                      message \in {"Request failed"}
                          \cup {"AI provider API key not configured for " \o p :
                                   p \in {"openai", "OpenAI", "anthropic", "cohere"}}
                          \cup {"Unsupported AI provider: " \o p : p \in {"cohere"}}}

\* C24: when the synthesis step fails, the error event is in the log of the
\* session at the step in which the request is answered with the failure,
\* as the last event; it stays the last event of the request's log
C24_ErrorEventLast ==
    [][ \A i \in Reqs :
            LET log == researchStatus'[req'[i].body["sessionId"]]
            IN  /\ (req[i].pc # "done" /\ FailedRequest(req'[i])) =>
                      IsErrorEvent(log[Len(log)])
                /\ (FailedRequest(req'[i]) /\ AloneOnSession(i)') =>
                      IsErrorEvent(log[Len(log)]) ]_vars

\* a request whose provider call failed has been answered, its log ending
\* with the error event
C24_Witness ==
    \E i \in Reqs :
        /\ FailedRequest(req[i])
        /\ AloneOnSession(i)
        /\ req[i].model = << "error" >>
        /\ IsErrorEvent(researchStatus[req[i].body["sessionId"]]
                            [Len(researchStatus[req[i].body["sessionId"]])])

IsPrefix(a, b) == Len(a) <= Len(b) /\ SubSeq(b, 1, Len(a)) = a

\* C25: a step of a request for session s leaves the log and the flag of
\* every other session as they are and adds no other session; after the
\* reset of its first step it only appends to the log of s; the flag of s
\* changes only at the reset and when the request succeeds, so never in a
\* step that ends inside or right after the adapters; a rejected request
\* changes nothing
C25_OtherSessionsUntouched ==
    [][ \A i \in Reqs :
            req'[i] # req[i] =>
                IF ~req'[i].validated
                THEN researchStatus' = researchStatus /\ researchComplete' = researchComplete
                ELSE LET s == req'[i].body["sessionId"]
                     IN  /\ DOMAIN researchStatus' = DOMAIN researchStatus \cup {s}
                         /\ DOMAIN researchComplete' = DOMAIN researchComplete \cup {s}
                         /\ \A t \in DOMAIN researchStatus \ {s} :
                               /\ researchStatus'[t] = researchStatus[t]
                               /\ researchComplete'[t] = researchComplete[t]
                         /\ req[i].pc # "idle" =>
                               /\ IsPrefix(researchStatus[s], researchStatus'[s])
                               /\ researchComplete'[s] # researchComplete[s] =>
                                     /\ req'[i].pc = "done"
                                     /\ req'[i].res.status = 200
                                     /\ researchComplete'[s] = TRUE ]_vars

\* both requests have run to a successful end on different sessions, the
\* first one through all four adapters
C25_Witness ==
    /\ \A i \in Reqs : Finished(i) /\ req[i].res.status = 200
    /\ req[1].body["sessionId"] # req[2].body["sessionId"]
    /\ Len(req[1].calls) = 4
    /\ \A s \in SessionIds : researchComplete[s] = TRUE

\* request i carries session id s and has begun but not been answered
Executing(i, s) ==
    /\ req[i].validated
    /\ req[i].body["sessionId"] = s
    /\ req[i].pc \in {"arxiv", "ai"}

\* C27: when a status poll for session s reports complete = true, no request
\* for s is still executing, also when two requests for s overlap
C27_CompleteMeansIdle ==
    (statusRes.status = 200 /\ statusRes.body.complete = TRUE) =>
        \A i \in Reqs : ~Executing(i, statusRes.body.sessionId)

\* a validated request for session s begins in this step
Begins(s) ==
    \E i \in Reqs :
        /\ req[i].pc = "idle"
        /\ req'[i].validated
        /\ req'[i].body["sessionId"] = s

\* a poll for session s is answered in this step
Polled(s) == statusRes' # NoResponse /\ statusRes'.body.sessionId = s

\* C28: once a request for session s has succeeded (its flag is true, no
\* request for s has begun since), the log of s stays the same and the flag
\* true until the next request for s begins, and every poll reports them
C28_StableAfterSuccess ==
    [][ \A s \in DOMAIN researchComplete :
            (researchComplete[s] = TRUE /\ ~Begins(s)) =>
                /\ researchStatus'[s] = researchStatus[s]
                /\ researchComplete'[s] = TRUE
                /\ Polled(s) =>
                      /\ statusRes'.body.complete = TRUE
                      /\ statusRes'.body.steps = researchStatus[s] ]_vars

\* C29: between the start of a request for session s and the start of the
\* next one the log of s only gets events appended: the log before a step
\* is a prefix of the log after it, and a poll reports the log as it is, so
\* the log of an earlier poll is a prefix of the log of every later poll
C29_LogOnlyGrows ==
    [][ \A s \in DOMAIN researchStatus :
            ~Begins(s) =>
                /\ IsPrefix(researchStatus[s], researchStatus'[s])
                /\ Polled(s) => statusRes'.body.steps = researchStatus'[s] ]_vars

\* a poll has reported the log of a session on which a request is suspended
\* in the provider's call, after all four adapters
C29_Witness ==
    /\ statusRes.status = 200
    /\ statusRes.body.sessionId = "s1"
    /\ \E i \in Reqs : Executing(i, "s1") /\ req[i].pc = "ai" /\ Len(req[i].calls) = 4
    /\ Len(statusRes.body.steps) >= 10
    /\ statusRes.body.complete = FALSE

\* C30: on every triple of keyword counts QueryController.categorizeQuery and
\* QueryCategorizer.categorize give the same category, market_trends being
\* read as market
C30_CategorizersAgree ==
    call.fn = "categorized" =>
        call.controller = (IF call.categorizer = "market_trends" THEN "market"
                           ELSE call.categorizer)

\* the calls of an adapter: getResearch of the four adapters and processQuery
\* of the leasing and fallback adapters
AdapterCalls == {"sustainability", "leasing", "market", "fallback",
                 "LeasingService.processQuery", "FallbackService.processQuery"}

\* the latest adapter call got no record from any of its network calls
NoProviderRecords ==
    CASE call.fn = "sustainability" -> Len(searchArXiv(call.arxiv)) = 0
      [] call.fn = "LeasingService.processQuery" ->
            Len(searchZillow(call.zillow)) = 0
      [] call.fn = "FallbackService.processQuery" ->
            /\ Len(searchWikipedia(call.wikipedia)) = 0
            /\ Len(webSearch(call.bing)) = 0
      [] OTHER -> FALSE

\* the records written in the code, which no network call supplies
CannedTitles == { searchLEED(<< >>).value[1].title, searchCoStar[1].title,
                  webScrape[1].title, getGeneralLeasingInfo.title,
                  getGeneralInfo.title }

C22_WitnessSustainability ==
    /\ call.fn = "sustainability"
    /\ call.arxiv.failed
    /\ Len(call.out.value) = 1

C22_WitnessLeasing ==
    /\ call.fn = "LeasingService.processQuery"
    /\ call.zillow = "error"
    /\ Len(call.out.value) = 1

\* the records the latest sustainability call got from arXiv
PrimaryRecords == searchArXiv(call.arxiv)

\* the latest sustainability call searched LEED: the placeholder record of
\* searchLEED is in the returned array and, for a session with a log, the
\* LEED events end the log
SecondaryAttempted ==
    /\ \E i \in 1..Len(call.out.value) :
          call.out.value[i] = searchLEED(call.query).value[1]
    /\ call.sessionId \in DOMAIN researchStatus =>
          LET log == researchStatus[call.sessionId]
          IN  /\ log[Len(log)] = EvS("Retrieved LEED certification data",
                                     "USGBC LEED Database")
              /\ log[Len(log) - 1] = EvS("Searching LEED certification databases",
                                         "USGBC LEED Database")

\* no trace of a LEED search in the result or in the log
SecondarySkipped ==
    /\ \A i \in 1..Len(call.out.value) : call.out.value[i].source # "LEED Database"
    /\ call.sessionId \in DOMAIN researchStatus =>
          \A k \in 1..Len(researchStatus[call.sessionId]) :
              Field(researchStatus[call.sessionId][k], "source") # "USGBC LEED Database"

\* C23: SustainabilityService.getResearch searches LEED if and only if arXiv
\* gave fewer than 3 records, and whatever the LEED search does, the records
\* of arXiv stay at the front of the returned array, in their order
C23_SecondaryIffFewerThanThree ==
    call.fn = "sustainability" =>
        /\ ~call.out.raised
        /\ IF Len(PrimaryRecords) < 3 THEN SecondaryAttempted ELSE SecondarySkipped
        /\ Len(call.out.value) >= Len(PrimaryRecords)
        /\ SubSeq(call.out.value, 1, Len(PrimaryRecords)) = PrimaryRecords

\* arXiv gave two records for a session with a log, and LEED was searched
C23_Witness ==
    /\ call.fn = "sustainability"
    /\ Len(PrimaryRecords) = 2
    /\ call.sessionId \in DOMAIN researchStatus
    /\ SecondaryAttempted
    /\ Len(call.out.value) = 3

\* arXiv gave three records, and LEED was not searched
C23_WitnessSkipped ==
    /\ call.fn = "sustainability"
    /\ Len(PrimaryRecords) = 3
    /\ call.sessionId \in DOMAIN researchStatus
    /\ call.out.value = PrimaryRecords

\* the relevance score of an item for the query of the running search
ItemScore(item) == scoreRelevance(call.queryTerms, item.title, item.description)

\* the places, in the feed fetched last, of the items kept from it
KeptPositions == { call.topItems[k].pos : k \in 1..Len(call.topItems) }

\* the records in results that come from the given feed
FromFeed(results, feed) == SelectSeq(results, LAMBDA r : r.source = feed.source)

\* C26: during and after a news search every feed has contributed at most 2
\* records, at most 6 in all; the items kept from the feed fetched last are
\* distinct items of that feed, each of score greater than 0, their records
\* end the results, and no item of that feed that was left out has a higher
\* score than one that was kept
C26_TopTwoPerFeed ==
    /\ call.fn = "searchNews" =>
          /\ Len(call.results) <= 2 * Len(feedSources)
          /\ \A f \in 1..Len(feedSources) :
                Len(FromFeed(call.results, feedSources[f])) <= 2
          /\ call.feed >= 1 =>
                /\ Len(call.topItems) <= 2
                /\ Cardinality(KeptPositions) = Len(call.topItems)
                /\ KeptPositions \subseteq 1..Len(call.items)
                /\ \A k \in 1..Len(call.topItems) :
                      /\ call.topItems[k].item = call.items[call.topItems[k].pos]
                      /\ ItemScore(call.topItems[k].item) > 0
                      /\ call.results[Len(call.results) - Len(call.topItems) + k]
                            = NewsRecord(feedSources[call.feed],
                                         call.topItems[k].item)
                /\ \A j \in (1..Len(call.items)) \ KeptPositions :
                      \A k \in KeptPositions :
                          ItemScore(call.items[j]) <= ItemScore(call.items[k])
    /\ call.fn = "RSSFeedService.searchNews" =>
          /\ Len(call.out.value) <= 2 * Len(feedSources)
          /\ \A f \in 1..Len(feedSources) :
                Len(FromFeed(call.out.value, feedSources[f])) <= 2

\* a feed of three items of scores 2, 0, 3 has been fetched: the item of
\* score 3 is kept first, the item of score 2 second, the third is left out
C26_Witness ==
    /\ call.fn = "searchNews"
    /\ call.feed >= 1
    /\ Len(call.items) = 3
    /\ ItemScore(call.items[1]) = 2
    /\ ItemScore(call.items[2]) = 0
    /\ ItemScore(call.items[3]) = 3
    /\ Len(call.topItems) = 2
    /\ call.topItems[1].pos = 3
    /\ call.topItems[2].pos = 1

\* a feed with three items of positive score: one of them is left out
C26_WitnessLeftOut ==
    /\ call.fn = "searchNews"
    /\ call.feed = 3
    /\ Len(call.items) = 3
    /\ \A j \in 1..3 : ItemScore(call.items[j]) > 0
    /\ ItemScore(call.items[1]) < ItemScore(call.items[3])
    /\ Len(call.results) = 6

\* the search has returned six records
C26_WitnessSix ==
    /\ call.fn = "RSSFeedService.searchNews"
    /\ Len(call.out.value) = 6

====
